---- MODULE Spec2Model ----
(***************************************************************************)
(* The "products" CRUD service: the mux router, the five request handlers  *)
(* of App, the data access methods of product, and the products table      *)
(* (id SERIAL primary key, name TEXT NOT NULL, price NUMERIC(10,2)).       *)
(*                                                                         *)
(* Strings that the program parses (path segments, query parameters) are   *)
(* sequences of one-character strings.  A price is a decimal with three    *)
(* fractional digits, [w |-> whole part, f |-> thousandths]; the table     *)
(* keeps it coerced to NUMERIC(10,2).  An optional value (a JSON field     *)
(* that may be absent, an SQL value that may be NULL) is << >> or <<v>>.   *)
(* Each handler issues one SQL statement, so a handler is one atomic step. *)
(***************************************************************************)
EXTENDS Integers, Sequences, FiniteSets, TLC

(* ------------------------------ bounds --------------------------------- *)

\* width of Go's int in bits (64 in the build, scaled down)
IntSize == 8
\* width of the id column (SERIAL is a 4-byte integer, scaled down)
Int4Size == 5
\* the sequence products_id_seq hands out at most this many ids
MaxSeq == 2

\* NUMERIC(10,2): precision and scale of the price column
NumericPrecision == 10
NumericScale == 2

MaxInt == 2^(IntSize - 1) - 1
MinInt == -(2^(IntSize - 1))
MaxInt4 == 2^(Int4Size - 1) - 1
MinInt4 == -(2^(Int4Size - 1))

(* ------------------------------ inputs --------------------------------- *)

Digits == {"0", "1", "2", "3", "4", "5", "6", "7", "8", "9"}

\* the {id} segment of /product/{id} as sent by clients
PathSegs ==
    { <<"1">>, <<"2">>, <<"3">>, <<"0", "1">>, <<"9", "9">>,
      <<"9", "9", "9">>, <<"x">>, << >> }

\* raw values of the query parameters count and start (<< >> is absent)
ListVals == { << >>, <<"1">>, <<"2">>, <<"9", "9", "9">> }

\* a wider set of raw values, for the clamping alone
QueryVals ==
    { << >>, <<"0">>, <<"1">>, <<"2">>, <<"1", "0">>, <<"1", "1">>,
      <<"-", "1">>, <<"+", "2">>, <<"x">>, <<"9", "9", "9">>,
      <<"-", "9", "9", "9">> }

Zero == [w |-> 0, f |-> 0]
\* 11.22, 11.225, the largest NUMERIC(10,2), one that rounds beyond it
PriceVals ==
    { [w |-> 11, f |-> 220], [w |-> 11, f |-> 225],
      [w |-> 10^(NumericPrecision - NumericScale) - 1, f |-> 995] }

NameVals == {"", "a"}

NoBody == [ok |-> FALSE, id |-> << >>, name |-> << >>, price |-> << >>]

\* JSON request bodies: malformed, or an object {id, name, price} whose id
\* and name may be absent
Bodies ==
    { NoBody } \cup
    [ ok : {TRUE},
      id : {<< >>},
      name : {<< >>} \cup { <<n>> : n \in NameVals },
      price : { <<p>> : p \in PriceVals } ] \cup
    { [ok |-> TRUE, id |-> <<1>>, name |-> <<"a">>, price |-> <<p>>] :
        p \in { [w |-> 11, f |-> 220], [w |-> 11, f |-> 225] } }

(* --------------------------- strconv.Atoi ------------------------------ *)

DigitVal(c) ==
    CASE c = "0" -> 0 [] c = "1" -> 1 [] c = "2" -> 2 [] c = "3" -> 3
      [] c = "4" -> 4 [] c = "5" -> 5 [] c = "6" -> 6 [] c = "7" -> 7
      [] c = "8" -> 8 [] c = "9" -> 9

IsDigits(s) == Len(s) > 0 /\ \A i \in 1..Len(s) : s[i] \in Digits

RECURSIVE DigitsValue(_)
DigitsValue(s) ==
    IF Len(s) = 0 THEN 0
    ELSE 10 * DigitsValue(SubSeq(s, 1, Len(s) - 1)) + DigitVal(s[Len(s)])

\* [val, err]: a syntax error gives 0, a range error the nearest bound
Atoi(s) ==
    LET neg == Len(s) > 0 /\ s[1] = "-"
        signed == Len(s) > 0 /\ s[1] \in {"+", "-"}
        ds == IF signed THEN Tail(s) ELSE s
    IN  IF ~IsDigits(ds) THEN [val |-> 0, err |-> "ErrSyntax"]
        ELSE LET v == IF neg THEN -DigitsValue(ds) ELSE DigitsValue(ds)
             IN  IF v > MaxInt THEN [val |-> MaxInt, err |-> "ErrRange"]
                 ELSE IF v < MinInt THEN [val |-> MinInt, err |-> "ErrRange"]
                 ELSE [val |-> v, err |-> "nil"]

(* ------------------------------ state ---------------------------------- *)

VARIABLES
    products,   \* the rows of the products table, in scan order
    seq,        \* next value of products_id_seq
    req,        \* the request handled last
    resp,       \* the response written for it
    dal,        \* the statement the handler passed to the database
    created     \* ids that 201 responses have carried so far

vars == <<products, seq, req, resp, dal, created>>

Ids(tbl) == { tbl[i].id : i \in 1..Len(tbl) }


(* ------------------------- the products table -------------------------- *)

\* a conversion that sends the empty string as NULL
SqlText_nullIfEmpty(s) == IF s = "" THEN << >> ELSE <<s>>

\* a Go string handed to the driver is an SQL text value, never NULL
SqlText(s) == <<s>>

\* the id parameter of a statement is bound as a 4-byte integer
Int4InRange(v) == MinInt4 <= v /\ v <= MaxInt4

\* coercion of a price to NUMERIC(10,2): round half up to the scale, then
\* fail when the integer part needs more than precision - scale digits
NumericCoerce(p) ==
    LET unit == 10^(3 - NumericScale)
        q == (p.f + unit \div 2) \div unit
        perWhole == 10^NumericScale
        w2 == p.w + q \div perWhole
        f2 == (q % perWhole) * unit
    IN  [ok |-> w2 < 10^(NumericPrecision - NumericScale),
         val |-> [w |-> w2, f |-> f2]]

RowIndex(tbl, id) == CHOOSE i \in 1..Len(tbl) : tbl[i].id = id

RECURSIVE RemoveId(_, _)
RemoveId(tbl, id) ==
    IF Len(tbl) = 0 THEN << >>
    ELSE IF Head(tbl).id = id THEN RemoveId(Tail(tbl), id)
    ELSE <<Head(tbl)>> \o RemoveId(Tail(tbl), id)

\* nextval('products_id_seq')
Nextval(sq) == [id |-> sq, seq |-> sq + 1]

\* type product struct {ID, Name, Price}
Product(id, name, price) == [ID |-> id, Name |-> name, Price |-> price]

ErrNoRows == "sql: no rows in result set"
ErrInt4 == "pq: value out of range for type integer"
ErrNumeric == "pq: numeric field overflow"
ErrNotNull == "pq: null value in column name violates not-null constraint"
ErrUnique == "pq: duplicate key value violates unique constraint products_pkey"

(* ------------------------ model.go: data access ------------------------ *)

\* SELECT name, price FROM products WHERE id=$1, scanned into p
p_getProduct(tbl, p) ==
    IF ~Int4InRange(p.ID) THEN [err |-> ErrInt4, p |-> p]
    ELSE IF p.ID \notin Ids(tbl) THEN [err |-> ErrNoRows, p |-> p]
    ELSE LET r == tbl[RowIndex(tbl, p.ID)]
         IN  [err |-> "nil", p |-> Product(p.ID, r.name[1], r.price)]

\* UPDATE products SET name=$1, price=$2 WHERE id=$3; the result (rows
\* affected) is dropped.  fold: the planner evaluates the price coercion
\* even when no row matches.
p_updateProduct(tbl, p, fold) ==
    LET c == NumericCoerce(p.Price)
        hit == p.ID \in Ids(tbl)
        name == SqlText(p.Name)
    IN  IF ~Int4InRange(p.ID) THEN [err |-> ErrInt4, tbl |-> tbl, affected |-> 0]
        ELSE IF ~c.ok /\ (hit \/ fold)
            THEN [err |-> ErrNumeric, tbl |-> tbl, affected |-> 0]
        ELSE IF ~hit THEN [err |-> "nil", tbl |-> tbl, affected |-> 0]
        ELSE IF name = << >> THEN [err |-> ErrNotNull, tbl |-> tbl, affected |-> 0]
        ELSE [err |-> "nil",
              tbl |-> [tbl EXCEPT ![RowIndex(tbl, p.ID)].name = name,
                                  ![RowIndex(tbl, p.ID)].price = c.val],
              affected |-> 1]

\* a delete that reports success and removes nothing
p_deleteProduct_keep(tbl, p) ==
    IF ~Int4InRange(p.ID) THEN [err |-> ErrInt4, tbl |-> tbl, affected |-> 0]
    ELSE [err |-> "nil", tbl |-> tbl, affected |-> 0]

\* DELETE FROM products WHERE id=$1; the result is dropped
p_deleteProduct(tbl, p) ==
    IF ~Int4InRange(p.ID) THEN [err |-> ErrInt4, tbl |-> tbl, affected |-> 0]
    ELSE [err |-> "nil", tbl |-> RemoveId(tbl, p.ID),
          affected |-> IF p.ID \in Ids(tbl) THEN 1 ELSE 0]

\* an insert that takes the id from the request when it carries one
p_createProduct_clientId(tbl, sq, p, burn) ==
    LET c == NumericCoerce(p.Price)
        n == Nextval(sq)
        id == IF p.ID # 0 THEN p.ID ELSE n.id
    IN  IF ~c.ok THEN [err |-> ErrNumeric, tbl |-> tbl, seq |-> sq, p |-> p]
        ELSE IF id \in Ids(tbl)
            THEN [err |-> ErrUnique, tbl |-> tbl, seq |-> n.seq, p |-> p]
        ELSE [err |-> "nil",
              tbl |-> Append(tbl, [id |-> id, name |-> <<p.Name>>, price |-> c.val]),
              seq |-> n.seq,
              p |-> Product(id, p.Name, p.Price)]

\* an insert that names only the name column, leaving price to its default
p_createProduct_noPrice(tbl, sq, p, burn) ==
    LET n == Nextval(sq)
    IN  [err |-> "nil",
         tbl |-> Append(tbl, [id |-> n.id, name |-> SqlText(p.Name), price |-> Zero]),
         seq |-> n.seq,
         p |-> Product(n.id, p.Name, p.Price)]

\* INSERT INTO products(name, price) VALUES($1, $2) RETURNING id, scanned
\* into p.ID.  burn: a rejected insert has already drawn from the sequence.
p_createProduct(tbl, sq, p, burn) ==
    LET c == NumericCoerce(p.Price)
        n == Nextval(sq)
        name == SqlText(p.Name)
    IN  IF ~c.ok
            THEN [err |-> ErrNumeric, tbl |-> tbl,
                  seq |-> IF burn THEN n.seq ELSE sq, p |-> p]
        ELSE IF name = << >>
            THEN [err |-> ErrNotNull, tbl |-> tbl, seq |-> n.seq, p |-> p]
        ELSE IF n.id \in Ids(tbl)
            THEN [err |-> ErrUnique, tbl |-> tbl, seq |-> n.seq, p |-> p]
        ELSE [err |-> "nil",
              tbl |-> Append(tbl, [id |-> n.id, name |-> name, price |-> c.val]),
              seq |-> n.seq,
              p |-> Product(n.id, p.Name, p.Price)]

Min(a, b) == IF a < b THEN a ELSE b

\* a listing that starts from a nil slice (var products []product)
getProducts_nilSlice(tbl, start, count) ==
    LET rows == IF start >= Len(tbl) THEN << >>
                ELSE SubSeq(tbl, start + 1, Min(Len(tbl), start + count))
    IN  [err |-> "nil",
         products |-> [nil |-> rows = << >>,
                       items |-> [i \in 1..Len(rows) |->
                                    Product(rows[i].id, rows[i].name[1], rows[i].price)]]]

\* SELECT id, name, price FROM products LIMIT $1 OFFSET $2, appended to
\* products := []product{} (an empty, non-nil slice)
getProducts(tbl, start, count) ==
    LET rows == IF start >= Len(tbl) THEN << >>
                ELSE SubSeq(tbl, start + 1, Min(Len(tbl), start + count))
    IN  [err |-> "nil",
         products |-> [nil |-> FALSE,
                       items |-> [i \in 1..Len(rows) |->
                                    Product(rows[i].id, rows[i].name[1], rows[i].price)]]]


(* --------------------- encoding/json, the responses -------------------- *)

\* json.NewDecoder(r.Body).Decode(&p): fields absent from the object keep
\* the value p had
Decode(body, p) ==
    [err |-> ~body.ok,
     p |-> Product(IF body.id = << >> THEN p.ID ELSE body.id[1],
                   IF body.name = << >> THEN p.Name ELSE body.name[1],
                   IF body.price = << >> THEN p.Price ELSE body.price[1])]

JsonProduct(p) == [kind |-> "product", id |-> p.ID, name |-> p.Name, price |-> p.Price]

\* a nil slice marshals as null, any other slice as an array
JsonProducts(slice) ==
    IF slice.nil THEN [kind |-> "null"]
    ELSE [kind |-> "array",
          items |-> [i \in 1..Len(slice.items) |-> JsonProduct(slice.items[i])]]

respondWithJSON(code, payload) == [code |-> code, body |-> payload]

respondWithError(code, message) ==
    respondWithJSON(code, [kind |-> "error", error |-> message])

NoCall == [stmt |-> "none", id |-> 0, start |-> 0, count |-> 0, affected |-> 0]
Call(stmt, id, affected) ==
    [stmt |-> stmt, id |-> id, start |-> 0, count |-> 0, affected |-> affected]

(* ------------------------------ router --------------------------------- *)

\* a route /product/{id} without the numeric pattern
RouteMatch_any(seg) == Len(seg) > 0

\* the route /product/{id:[0-9]+}
RouteMatch(seg) == IsDigits(seg)

\* mux's NotFoundHandler
NotFoundResponse == [code |-> 404, body |-> [kind |-> "text", text |-> "404 page not found"]]

Request(method, route, seg, body, count, start) ==
    [method |-> method, route |-> route, seg |-> seg, body |-> body,
     count |-> count, start |-> start]

(* ------------------------------ handlers ------------------------------- *)
\* Each handler gives the response it writes, the statement it issued, and
\* the table and sequence it leaves.

Outcome(r, d, tbl, sq) == [resp |-> r, dal |-> d, tbl |-> tbl, seq |-> sq]

App_getProduct(tbl, sq, seg) ==
    LET a == Atoi(seg)
        g == p_getProduct(tbl, Product(a.val, "", Zero))
    IN  IF a.err # "nil"
            THEN Outcome(respondWithError(400, "Invalid product ID"), NoCall, tbl, sq)
        ELSE IF g.err = ErrNoRows
            THEN Outcome(respondWithError(404, "Product not found"),
                         Call("select", a.val, 0), tbl, sq)
        ELSE IF g.err # "nil"
            THEN Outcome(respondWithError(500, g.err), Call("select", a.val, 0), tbl, sq)
        ELSE Outcome(respondWithJSON(200, JsonProduct(g.p)),
                     Call("select", a.val, 1), tbl, sq)

\* a clamp that lets a count of 0 through
ClampCount_zero(count) == IF count > 10 \/ count < 0 THEN 10 ELSE count

\* the clamping of the query parameters
ClampCount(count) == IF count > 10 \/ count < 1 THEN 10 ELSE count
ClampStart(start) == IF start < 0 THEN 0 ELSE start

App_getProducts(tbl, sq, countStr, startStr) ==
    LET count == ClampCount(Atoi(countStr).val)
        start == ClampStart(Atoi(startStr).val)
        g == getProducts(tbl, start, count)
        d == [stmt |-> "selectRange", id |-> 0, start |-> start, count |-> count,
              affected |-> IF g.err = "nil" THEN Len(g.products.items) ELSE 0]
    IN  IF g.err # "nil"
            THEN Outcome(respondWithError(500, g.err), d, tbl, sq)
        ELSE Outcome(respondWithJSON(200, JsonProducts(g.products)), d, tbl, sq)

App_createProduct(tbl, sq, body, burn) ==
    LET dec == Decode(body, Product(0, "", Zero))
        c == p_createProduct(tbl, sq, dec.p, burn)
    IN  IF dec.err
            THEN Outcome(respondWithError(400, "Invalid request payload"), NoCall, tbl, sq)
        ELSE IF c.err # "nil"
            THEN Outcome(respondWithError(500, c.err), Call("insert", 0, 0), c.tbl, c.seq)
        ELSE Outcome(respondWithJSON(201, JsonProduct(c.p)),
                     Call("insert", c.p.ID, 1), c.tbl, c.seq)

\* a handler that keeps the id the body carries
App_updateProduct_bodyId(tbl, sq, seg, body, fold) ==
    LET a == Atoi(seg)
        dec == Decode(body, Product(a.val, "", Zero))
        p == dec.p
        u == p_updateProduct(tbl, p, fold)
    IN  IF a.err # "nil"
            THEN Outcome(respondWithError(400, "Invalid product ID"), NoCall, tbl, sq)
        ELSE IF dec.err
            THEN Outcome(respondWithError(400, "Invalid resquest payload"), NoCall, tbl, sq)
        ELSE IF u.err # "nil"
            THEN Outcome(respondWithError(500, u.err), Call("update", p.ID, 0), u.tbl, sq)
        ELSE Outcome(respondWithJSON(200, JsonProduct(p)),
                     Call("update", p.ID, u.affected), u.tbl, sq)

App_updateProduct(tbl, sq, seg, body, fold) ==
    LET a == Atoi(seg)
        dec == Decode(body, Product(0, "", Zero))
        p == [dec.p EXCEPT !.ID = a.val]
        u == p_updateProduct(tbl, p, fold)
    IN  IF a.err # "nil"
            THEN Outcome(respondWithError(400, "Invalid product ID"), NoCall, tbl, sq)
        ELSE IF dec.err
            THEN Outcome(respondWithError(400, "Invalid resquest payload"), NoCall, tbl, sq)
        ELSE IF u.err # "nil"
            THEN Outcome(respondWithError(500, u.err), Call("update", p.ID, 0), u.tbl, sq)
        ELSE Outcome(respondWithJSON(200, JsonProduct(p)),
                     Call("update", p.ID, u.affected), u.tbl, sq)

App_deleteProduct(tbl, sq, seg) ==
    LET a == Atoi(seg)
        d == p_deleteProduct(tbl, Product(a.val, "", Zero))
    IN  IF a.err # "nil"
            THEN Outcome(respondWithError(400, "Invalid Product ID"), NoCall, tbl, sq)
        ELSE IF d.err # "nil"
            THEN Outcome(respondWithError(500, d.err), Call("delete", a.val, 0), d.tbl, sq)
        ELSE Outcome(respondWithJSON(200, [kind |-> "result", result |-> "success"]),
                     Call("delete", a.val, d.affected), d.tbl, sq)

(* ------------------------------ actions -------------------------------- *)

Init ==
    /\ products = << >>
    /\ seq = 1
    /\ req = Request("", "", << >>, NoBody, << >>, << >>)
    /\ resp = [code |-> 0, body |-> [kind |-> "none"]]
    /\ dal = NoCall
    /\ created = {}

Serve(r, o) ==
    /\ req' = r
    /\ resp' = o.resp
    /\ dal' = o.dal
    /\ products' = o.tbl
    /\ seq' = o.seq
    /\ created' = IF r.method = "POST" /\ o.resp.code = 201
                  THEN created \cup {o.resp.body.id} ELSE created

\* the two places where the database's order of evaluation is left open:
\* a price that overflows in an insert, and in an update matching no row
InsertRejected(b) ==
    b.ok /\ ~NumericCoerce(Decode(b, Product(0, "", Zero)).p.Price).ok
UpdateMatchesNone(tbl, seg, b) ==
    /\ b.ok /\ ~NumericCoerce(Decode(b, Product(0, "", Zero)).p.Price).ok
    /\ Atoi(seg).val \notin Ids(tbl)

\* GET /products?count=&start=
GET_products ==
    \E c \in ListVals, s \in ListVals :
        Serve(Request("GET", "/products", << >>, NoBody, c, s),
              App_getProducts(products, seq, c, s))

\* POST /product
POST_product ==
    \E b \in Bodies :
      \E burn \in IF InsertRejected(b) THEN BOOLEAN ELSE {FALSE} :
        /\ seq <= MaxSeq
        /\ Serve(Request("POST", "/product", << >>, b, << >>, << >>),
                 App_createProduct(products, seq, b, burn))

\* GET /product/{id}
GET_product ==
    \E seg \in PathSegs :
        /\ RouteMatch(seg)
        /\ Serve(Request("GET", "/product/{id}", seg, NoBody, << >>, << >>),
                 App_getProduct(products, seq, seg))

\* PUT /product/{id}
PUT_product ==
    \E seg \in PathSegs, b \in Bodies :
      \E fold \in IF UpdateMatchesNone(products, seg, b) THEN BOOLEAN ELSE {TRUE} :
        /\ RouteMatch(seg)
        /\ Serve(Request("PUT", "/product/{id}", seg, b, << >>, << >>),
                 App_updateProduct(products, seq, seg, b, fold))

\* DELETE /product/{id}
DELETE_product ==
    \E seg \in PathSegs :
        /\ RouteMatch(seg)
        /\ Serve(Request("DELETE", "/product/{id}", seg, NoBody, << >>, << >>),
                 App_deleteProduct(products, seq, seg))

\* a path /product/{id} whose segment is not numeric matches no route
NoRoute ==
    \E m \in {"GET", "PUT", "DELETE"}, seg \in PathSegs :
        /\ ~RouteMatch(seg)
        /\ Serve(Request(m, "/product/{id}", seg, NoBody, << >>, << >>),
                 Outcome(NotFoundResponse, NoCall, products, seq))

Next ==
    \/ GET_products
    \/ POST_product
    \/ GET_product
    \/ PUT_product
    \/ DELETE_product
    \/ NoRoute

Spec == Init /\ [][Next]_vars

\* GET /products alone, over the wider set of raw parameter values
GET_products_any ==
    \E c \in QueryVals, s \in QueryVals :
        Serve(Request("GET", "/products", << >>, NoBody, c, s),
              App_getProducts(products, seq, c, s))

NextClamp == GET_products_any

SpecClamp == Init /\ [][NextClamp]_vars

(* ------------------------- reading a request --------------------------- *)

\* the product a well-formed body submits
Submitted(r) == Decode(r.body, Product(0, "", Zero)).p

\* the price column accepts p: rounded to two fractional digits it has at
\* most ten digits
PriceFits(p) ==
    p.w + (IF p.f >= 995 THEN 1 ELSE 0) < 10^(NumericPrecision - NumericScale)

\* the price column holds p as it is: two fractional digits, ten digits in all
PriceExact(p) == p.f % 10 = 0 /\ p.w < 10^(NumericPrecision - NumericScale)

\* a request for /product/{id} that the router hands to a handler
Routed(r, method) ==
    r.route = "/product/{id}" /\ r.method = method /\ IsDigits(r.seg)

\* an optionally signed decimal numeral, and the integer it denotes
IsInteger(s) ==
    IsDigits(IF Len(s) > 0 /\ s[1] \in {"+", "-"} THEN Tail(s) ELSE s)
IntegerValue(s) ==
    IF s[1] = "-" THEN -DigitsValue(Tail(s))
    ELSE IF s[1] = "+" THEN DigitsValue(Tail(s))
    ELSE DigitsValue(s)

ProductNotFound == respondWithError(404, "Product not found")

IdSeq(tbl) == [i \in 1..Len(tbl) |-> tbl[i].id]


(* ------------------------------- claims -------------------------------- *)

\* C1: when POST /product answers 201 with id i for a name and a price the
\* price column holds exactly, GET /product/i answers 200 with id i and the
\* submitted name and price.  (GET_product writes the response
\* App_getProduct gives in the state the POST left.)
C1_CreateThenGet ==
    (req.method = "POST" /\ resp.code = 201 /\ PriceExact(Submitted(req).Price)) =>
        /\ resp.body.kind = "product"
        /\ \A seg \in PathSegs :
             (IsDigits(seg) /\ DigitsValue(seg) = resp.body.id) =>
                App_getProduct(products, seq, seg).resp =
                    [code |-> 200,
                     body |-> [kind |-> "product", id |-> resp.body.id,
                               name |-> Submitted(req).Name,
                               price |-> Submitted(req).Price]]

\* a second product was created with name "a" and price 11.22
C1_Witness ==
    /\ req.method = "POST" /\ resp.code = 201
    /\ resp.body = [kind |-> "product", id |-> 2, name |-> "a",
                    price |-> [w |-> 11, f |-> 220]]
    /\ Len(products) = 2

\* C2: after DELETE /product/{id} answers 200, GET /product/{id} answers 404
\* "Product not found", whichever way the id is spelled.
C2_DeleteThenGet ==
    (Routed(req, "DELETE") /\ resp.code = 200) =>
        \A seg \in PathSegs :
            (IsDigits(seg) /\ DigitsValue(seg) = DigitsValue(req.seg)) =>
                App_getProduct(products, seq, seg).resp = ProductNotFound

\* a DELETE removed a row and left another one in the table
C2_Witness ==
    /\ Routed(req, "DELETE") /\ resp.code = 200
    /\ dal.affected = 1
    /\ Len(products) = 1

\* C3: GET /product/{id}, for an id that parses, answers 404 "Product not
\* found" when no row has the id and 200 with the stored row when one has;
\* never 500 for a missing row.
C3_GetById ==
    (Routed(req, "GET") /\ DigitsValue(req.seg) <= MaxInt) =>
        LET id == DigitsValue(req.seg)
        IN  IF id \in Ids(products)
            THEN LET r == products[RowIndex(products, id)]
                 IN  resp = [code |-> 200,
                             body |-> [kind |-> "product", id |-> id,
                                       name |-> r.name[1], price |-> r.price]]
            ELSE resp = ProductNotFound

\* what the handler does instead: the claim's answers for an id the id
\* column can hold, and 500 with the database's range error for an id that
\* fits int and not the column
GetWithinColumn ==
    (Routed(req, "GET") /\ DigitsValue(req.seg) <= MaxInt) =>
        LET id == DigitsValue(req.seg)
        IN  IF id > MaxInt4
                THEN resp = respondWithError(500, ErrInt4)
            ELSE IF id \in Ids(products)
                THEN LET r == products[RowIndex(products, id)]
                     IN  resp = [code |-> 200,
                                 body |-> [kind |-> "product", id |-> id,
                                           name |-> r.name[1], price |-> r.price]]
            ELSE resp = ProductNotFound

\* C4 as amended: the count passed to the data access layer is the given
\* count when it is an integer in [1,10] and 10 otherwise; the start passed
\* is the given start when it is an integer in [0, MaxInt], MaxInt when it
\* is an integer above MaxInt (Atoi's value on a range error is the nearest
\* bound, and the handler drops the error), and 0 otherwise.  The count
\* passed is always in [1,10] and the start passed always >= 0.
C4_Clamp ==
    req.route = "/products" =>
        /\ dal.count =
             IF IsInteger(req.count) /\ IntegerValue(req.count) \in 1..10
             THEN IntegerValue(req.count) ELSE 10
        /\ dal.start =
             IF IsInteger(req.start) /\ IntegerValue(req.start) >= 0
             THEN Min(IntegerValue(req.start), MaxInt) ELSE 0
        /\ dal.count \in 1..10
        /\ dal.start >= 0

\* count=0 became 10 and a start beyond int became MaxInt
C4_Witness ==
    /\ req.route = "/products"
    /\ req.count = <<"0">> /\ dal.count = 10
    /\ req.start = <<"9", "9", "9">> /\ dal.start = MaxInt

\* C4 as stated: the start passed is the given start whenever it is >= 0
C4_AsStated ==
    req.route = "/products" =>
        /\ dal.count =
             IF IsInteger(req.count) /\ IntegerValue(req.count) \in 1..10
             THEN IntegerValue(req.count) ELSE 10
        /\ dal.start =
             IF IsInteger(req.start) /\ IntegerValue(req.start) >= 0
             THEN IntegerValue(req.start) ELSE 0

\* C5: GET /products answers 200 with the array of the rows that follow the
\* first start rows of the table, cut to count rows (start and count as
\* passed to the data access layer); with no such row the array is empty,
\* not null.
C5_ListWindow ==
    req.route = "/products" =>
        LET n == Len(products)
            k == IF dal.start >= n THEN 0 ELSE Min(dal.count, n - dal.start)
        IN  /\ resp.code = 200
            /\ resp.body.kind = "array"
            /\ Len(resp.body.items) = k
            /\ \A i \in 1..k :
                 LET r == products[dal.start + i]
                 IN  resp.body.items[i] =
                        [kind |-> "product", id |-> r.id, name |-> r.name[1],
                         price |-> r.price]

\* of two rows, start=1 skipped the first and the array holds the second
C5_Witness ==
    /\ req.route = "/products"
    /\ Len(products) = 2
    /\ dal.start = 1
    /\ resp.body.kind = "array"
    /\ Len(resp.body.items) = 1
    /\ resp.body.items[1].id = products[2].id


\* C6 as amended: PUT /product/{id} on an existing product with a body whose
\* price the price column holds exactly answers 200 with the path id and
\* the submitted name and price; the row with the path id then holds that
\* name and price, whatever id the body carries, and its id, the other rows
\* and the order of the rows are as before.
C6_UpdateByPathId ==
    [][ ( /\ Routed(req', "PUT") /\ req'.body.ok
          /\ DigitsValue(req'.seg) \in Ids(products)
          /\ PriceExact(Submitted(req').Price) ) =>
        LET id == DigitsValue(req'.seg)
            sub == Submitted(req')
        IN  /\ resp' = [code |-> 200,
                        body |-> [kind |-> "product", id |-> id,
                                  name |-> sub.Name, price |-> sub.Price]]
            /\ Len(products') = Len(products)
            /\ \A i \in 1..Len(products) :
                 products'[i] =
                    IF products[i].id = id
                    THEN [id |-> id, name |-> <<sub.Name>>, price |-> sub.Price]
                    ELSE products[i]
      ]_vars

\* PUT /product/2 with a body carrying id 1 updated row 2 and not row 1
C6_Witness ==
    /\ Routed(req, "PUT") /\ req.seg = <<"2">> /\ req.body.id = <<1>>
    /\ resp.code = 200 /\ resp.body.id = 2
    /\ dal.affected = 1
    /\ Len(products) = 2
    /\ products[2] = [id |-> 2, name |-> <<"a">>, price |-> [w |-> 11, f |-> 220]]
    /\ products[1].name = <<"">>

\* C6 as stated: for every body {name, price}
C6_AsStated ==
    [][ ( /\ Routed(req', "PUT") /\ req'.body.ok
          /\ DigitsValue(req'.seg) \in Ids(products) ) =>
        LET id == DigitsValue(req'.seg)
            sub == Submitted(req')
        IN  /\ resp'.code = 200
            /\ \A i \in 1..Len(products') :
                 products'[i].id = id =>
                    products'[i] = [id |-> id, name |-> <<sub.Name>>,
                                    price |-> sub.Price]
      ]_vars

\* C7: PUT /product/{id} (with a well-formed body and a price the column
\* accepts) and DELETE /product/{id}, for an id that parses and no row has,
\* answer 200 as for an existing id (PUT echoes the path id and the
\* submitted name and price, DELETE {"result":"success"}) and leave the
\* table as it was; no row is created.
C7_MissingIdSucceeds ==
    [][ ( /\ req'.route = "/product/{id}" /\ req'.method \in {"PUT", "DELETE"}
          /\ IsDigits(req'.seg)
          /\ DigitsValue(req'.seg) \notin Ids(products)
          /\ DigitsValue(req'.seg) <= MaxInt
          /\ req'.method = "PUT" =>
                (req'.body.ok /\ PriceFits(Submitted(req').Price)) ) =>
        /\ products' = products
        /\ req'.method = "DELETE" =>
              resp' = [code |-> 200,
                       body |-> [kind |-> "result", result |-> "success"]]
        /\ req'.method = "PUT" =>
              resp' = [code |-> 200,
                       body |-> [kind |-> "product", id |-> DigitsValue(req'.seg),
                                 name |-> Submitted(req').Name,
                                 price |-> Submitted(req').Price]]
      ]_vars

\* what the handlers do instead: the claim's answers for an id the id column
\* can hold, and 500 with the table untouched for an id that fits int and
\* not the column
MissingIdWithinColumn ==
    [][ ( /\ req'.route = "/product/{id}" /\ req'.method \in {"PUT", "DELETE"}
          /\ IsDigits(req'.seg)
          /\ DigitsValue(req'.seg) \notin Ids(products)
          /\ DigitsValue(req'.seg) <= MaxInt
          /\ req'.method = "PUT" =>
                (req'.body.ok /\ PriceFits(Submitted(req').Price)) ) =>
        /\ products' = products
        /\ IF DigitsValue(req'.seg) > MaxInt4
           THEN resp' = respondWithError(500, ErrInt4)
           ELSE IF req'.method = "DELETE"
           THEN resp' = [code |-> 200,
                         body |-> [kind |-> "result", result |-> "success"]]
           ELSE resp' = [code |-> 200,
                         body |-> [kind |-> "product", id |-> DigitsValue(req'.seg),
                                   name |-> Submitted(req').Name,
                                   price |-> Submitted(req').Price]]
      ]_vars

\* C8: ids come from the sequence alone.  A 201 response carries the value
\* drawn from the sequence, whatever id the body carries; it differs from
\* every id an earlier 201 carried and from every id in the table; no two
\* rows share an id; and no request changes the id of a row: a create
\* appends one id, a delete removes the ids it matches, every other request
\* leaves the ids as they are.
C8_IdsFromSequence ==
    [][ /\ Cardinality(Ids(products')) = Len(products')
        /\ seq' >= seq
        /\ IF req'.method = "POST" /\ resp'.code = 201
           THEN /\ resp'.body.id = seq
                /\ resp'.body.id \notin created
                /\ resp'.body.id \notin Ids(products)
                /\ IdSeq(products') = Append(IdSeq(products), seq)
           ELSE IF Routed(req', "DELETE")
           THEN LET Keep(i) == i # DigitsValue(req'.seg)
                IN  IdSeq(products') \in
                        {IdSeq(products), SelectSeq(IdSeq(products), Keep)}
           ELSE IdSeq(products') = IdSeq(products)
      ]_vars

\* after product 1 was created and deleted, a POST carrying id 1 got id 2
C8_Witness ==
    /\ req.method = "POST" /\ req.body.id = <<1>>
    /\ resp.code = 201 /\ resp.body.id = 2
    /\ created = {1, 2}
    /\ IdSeq(products) = <<2>>

\* C9 as amended: a path segment that matches [0-9]+ and whose value fits
\* int parses in the handler; one whose value is beyond int matches the
\* route too and is answered 400 by the handler, and that is the only way
\* to the handlers' 400 for the id; a segment that is not numeric matches
\* no route and reaches no handler.
C9_InvalidIdBeyondInt ==
    /\ ( /\ resp.body.kind = "error"
         /\ resp.body.error \in {"Invalid product ID", "Invalid Product ID"} ) =>
            ( /\ req.route = "/product/{id}" /\ IsDigits(req.seg)
              /\ DigitsValue(req.seg) > MaxInt
              /\ resp.code = 400 /\ dal = NoCall )
    /\ ( /\ req.route = "/product/{id}" /\ IsDigits(req.seg)
         /\ DigitsValue(req.seg) > MaxInt ) =>
            ( /\ resp.body.kind = "error"
              /\ resp.body.error \in {"Invalid product ID", "Invalid Product ID"} )
    /\ (req.route = "/product/{id}" /\ ~IsDigits(req.seg)) =>
            (resp = NotFoundResponse /\ dal = NoCall)

\* GET /product/999 was routed to the handler and answered 400
C9_Witness ==
    /\ Routed(req, "GET") /\ req.seg = <<"9", "9", "9">>
    /\ resp = respondWithError(400, "Invalid product ID")

\* C9 as stated: no request gets a handler's 400 for the id
C9_AsStated ==
    ~ ( /\ resp.body.kind = "error"
        /\ resp.body.error \in {"Invalid product ID", "Invalid Product ID"} )

\* C10 as amended: every row has a name that is not NULL, and it may be the
\* empty string: the service does not validate name and the NOT NULL
\* constraint accepts the empty string, so a POST /product whose body omits
\* name or gives "" (with a price the column accepts) answers 201 and stores
\* a row with the empty name, and such a PUT on an existing product answers
\* 200 and leaves the row with the empty name.
C10_NameNotNull ==
    /\ \A i \in 1..Len(products) : products[i].name # << >>
    /\ ( /\ req.method = "POST" /\ req.body.ok
         /\ Submitted(req).Name = "" /\ PriceFits(Submitted(req).Price) ) =>
            ( /\ resp.code = 201
              /\ products[Len(products)].id = resp.body.id
              /\ products[Len(products)].name = <<"">> )
    /\ ( /\ Routed(req, "PUT") /\ req.body.ok
         /\ Submitted(req).Name = "" /\ PriceFits(Submitted(req).Price)
         /\ DigitsValue(req.seg) \in Ids(products) ) =>
            ( /\ resp.code = 200
              /\ products[RowIndex(products, DigitsValue(req.seg))].name = <<"">> )

\* a POST whose body omits name answered 201 and the row has the empty name
C10_Witness ==
    /\ req.method = "POST" /\ req.body.ok /\ req.body.name = << >>
    /\ resp.code = 201
    /\ products[Len(products)].name = <<"">>

\* C10 as stated: every row has a non-empty name, and a POST or PUT with an
\* omitted or empty name is answered 500
C10_AsStated ==
    /\ \A i \in 1..Len(products) : products[i].name \notin {<< >>, <<"">>}
    /\ ( /\ req.method \in {"POST", "PUT"} /\ req.body.ok
         /\ req.route = "/product/{id}" => IsDigits(req.seg)
         /\ Submitted(req).Name = "" ) => resp.code = 500

====
